---- MODULE Spec2Model ----
(***************************************************************************)
(* Model of imapnotify/core.py: the Notifier supervisor (run / stop), the  *)
(* per-mailbox watcher coroutine (_idle, _select_box, _connect), the       *)
(* memoized password property, the push classification (_is_new_msg) and   *)
(* the command dispatch (_on_new_message, _on_new_message_post).           *)
(*                                                                         *)
(* Scheduling: one asyncio event loop.  Every action below is one          *)
(* synchronous segment of a coroutine, from the await it resumes at to the *)
(* next await it suspends on.  Library calls (aioimaplib, subprocesses)    *)
(* are the environment: their outcomes are chosen with \E.                 *)
(* aioimaplib answers login() and select() with a response whose result is *)
(* OK or NO, or the await raises (timeout, connection lost).               *)
(* Runtime assumption: asyncio.CancelledError derives from BaseException   *)
(* (Python >= 3.8), so `except Exception` does not catch a cancellation.   *)
(* In the supervisor model command templates are taken to format and       *)
(* tokenise (`command % box` and shlex.split(command) return) and a        *)
(* command is its spawn, its completion and its outcome; SpecTemplate      *)
(* models the formatting and tokenising, SpecCommand the command runner    *)
(* with its pipes, SpecPassword the password property.                     *)
(***************************************************************************)
EXTENDS Integers, Sequences, FiniteSets, TLC

\* ---- bounds ----
\* Spec is the whole program; SpecRun leaves stop() out, SpecDispatch has
\* fewer mailboxes; SpecPure, SpecTemplate, SpecPassword and SpecCommand are
\* one function each.
NumBoxes == 2        \* at most this many mailboxes are added (Spec, SpecRun)
DispatchBoxes == 1   \* at most this many mailboxes are added (SpecDispatch)
MaxPushes == 2       \* total server pushes delivered in one behaviour
RunPushes == 1       \* the same, in the behaviours of SpecRun
MaxPushLen == 2      \* longest push sequence classified by SpecPure

BoxIds == 1..(IF NumBoxes > DispatchBoxes THEN NumBoxes ELSE DispatchBoxes)

VARIABLES
  config,          \* the config object: required fields present?, password source
  notifier,        \* "none" | "constructed" | "config_error"  (Notifier.__init__)
  boxes,           \* self.boxes, in insertion order: <<[post, connection, idle]>>
  passwordCache,   \* cachedproperty slot in obj.__dict__: "unset" | "set"
  pwRuns,          \* number of executions of _get_password
  tasks,           \* self.tasks (set of box ids); {} before run()
  pc,              \* position of each watcher task
  result,          \* how each watcher task ended
  cancelReq,       \* task.cancel() requested and not yet delivered
  ops,             \* per box: the calls issued on its IMAP connection, in order
  selResp,         \* per box: result of the SELECT response
  loginResp,       \* per box: result of the LOGIN response
  peer,            \* per box: host and port its connection was opened to
  queue,           \* per box: pushes received by the connection, not yet consumed
  pushesSent,      \* number of pushes the server has sent so far
  qualified,       \* per box: pushes consumed by the watcher that classify as new
  primaryStarted,  \* per box: spawns of the primary command
  postStarted,     \* per box: spawns of the post command
  running,         \* per box: commands spawned and awaited, not yet completed
  log,             \* logger.error records
  runPc,           \* run(): "idle" | "waiting" | "returned" | "raised"
  runError,        \* exception run() raised
  stopPc,          \* stop(): "idle" | "logout" | "done" | "raised"
                   \*   | "attribute_error" (no self.tasks before run())
  stopIdx,         \* box whose logout stop() is awaiting
  msgIn,           \* SpecPure: the push handed to _is_new_msg
  isNew,           \* SpecPure: what _is_new_msg returned
  whichIn,         \* SpecTemplate: primary or post command
  templateIn,      \* SpecTemplate: the command template of the mailbox
  nameIn,          \* SpecTemplate: the mailbox name
  argvOut,         \* SpecTemplate: the argv handed to run_command
  pwConfig,        \* SpecPassword: the password fields of the configuration
  pwSlot,          \* SpecPassword: the value cachedproperty stored, if any
  pwResult,        \* SpecPassword: outcome of the last read of self.password
  pwCommandRuns,   \* SpecPassword: runs of the password_eval command
  pwReads,         \* SpecPassword: reads of self.password so far
  cmdOut,          \* SpecCommand: chunks the process has yet to write to stdout
  cmdErr,          \* SpecCommand: chunks the process has yet to write to stderr
  cmdStatus,       \* SpecCommand: exit status of the process
  outPipe,         \* SpecCommand: chunks in the stdout pipe
  errPipe,         \* SpecCommand: chunks in the stderr pipe
  proc,            \* SpecCommand: "none" | "running" | "exited"
  runner,          \* SpecCommand: check_output: "start" | "reading" | "waiting"
                   \*   | "returned" | "raised"
  data             \* SpecCommand: chunks check_output has collected

mainVars == <<config, notifier, boxes, passwordCache, pwRuns, tasks, pc, result,
              cancelReq, ops, selResp, loginResp, peer, queue, pushesSent,
              qualified, primaryStarted, postStarted, running, log, runPc,
              runError, stopPc, stopIdx>>
classifyVars == <<msgIn, isNew>>
templateVars == <<whichIn, templateIn, nameIn, argvOut>>
passwordVars == <<pwConfig, pwSlot, pwResult, pwCommandRuns, pwReads>>
commandVars == <<cmdOut, cmdErr, cmdStatus, outPipe, errPipe, proc, runner, data>>
pureVars == <<classifyVars, templateVars, passwordVars, commandVars>>
vars == <<mainVars, pureVars>>

\* ---- strings are sequences of characters ----
Marker == <<"E","X","I","S","T","S">>

\* Python `sub in s` for str operands: scan s for sub starting at index i.
RECURSIVE StrFind(_, _, _)
StrFind(sub, s, i) ==
  IF i + Len(sub) - 1 > Len(s) THEN FALSE
  ELSE IF SubSeq(s, i, i + Len(sub) - 1) = sub THEN TRUE
  ELSE StrFind(sub, s, i + 1)

StrIn(sub, s) == StrFind(sub, s, 1)

\* Python `x in msg` for a list operand: equality with some element.
ListIn(x, lst) == \E i \in 1..Len(lst) : lst[i] = x

\* A push is a single line [kind |-> "line", val |-> string] or a
\* sequence of lines [kind |-> "seq", val |-> <<string, ...>>].
\* Iterating a str yields its one-character strings.
Elements(msg) ==
  IF msg.kind = "line" THEN [i \in 1..Len(msg.val) |-> <<msg.val[i]>>]
  ELSE msg.val

FirstTest(msg) ==
  IF msg.kind = "line" THEN StrIn(Marker, msg.val) ELSE ListIn(Marker, msg.val)

IsNewMsgNoLoop(msg) ==
  IF FirstTest(msg) THEN "True" ELSE "None"

\* _is_new_msg: returns True, or falls off the end (None).
IsNewMsg(msg) ==
  IF FirstTest(msg) THEN "True"
  ELSE IF \E i \in 1..Len(Elements(msg)) : StrIn(Marker, Elements(msg)[i])
       THEN "True"
       ELSE "None"

\* `if self._is_new_msg(msg):`
Truthy(v) == v = "True"

\* ---- inputs ----
LineExists == <<"2"," ","E","X","I","S","T","S">>
LineRecent == <<"1"," ","R","E","C","E","N","T">>
LineOk == <<"O","K">>

\* Pushes the server sends in the supervisor model: one that carries the
\* marker and one that does not (SpecPure covers the other shapes).
SamplePushes ==
  { [kind |-> "line", val |-> LineOk],
    [kind |-> "seq",  val |-> <<LineRecent, LineExists>>] }

\* The configuration, by the exit _get_password takes on it:
\*   "value"     a password or a password_eval command that exits 0 (return)
\*   "eval_fail" a password_eval command that exits non-zero (CalledProcessError)
\*   "missing"   neither field (KeyError)
\* and by whether host, port and username are all present.
PwSources == {"value", "eval_fail", "missing"}

\* config['port']: the IMAPS default and another one
ConfigPorts == {993, 1143}
Configs == [required : BOOLEAN, pw : PwSources, port : ConfigPorts]

\* config['host'], config['username'], the unescaped password the
\* configuration yields, and config['password_eval']
Host == <<"m","x">>
Login == <<"m","e">>
RawPassword == <<"s","\"","c">>
PasswordEvalCommand == <<"p","a","s","s">>

\* aioimaplib: IMAP4_SSL(host='127.0.0.1', port=IMAP4_SSL_PORT, ...), 993
DefaultPort == 993
NoPeer == [host |-> <<>>, port |-> 0]

NoMsg == [kind |-> "none", val |-> <<>>]
NoTemplate == <<"<None>">>
NoArgv == [kind |-> "unset", val |-> <<>>, exc |-> "none"]
NoField == <<"<absent>">>
NoEval == [present |-> FALSE, outcome |-> "none", status |-> 0, out |-> <<>>]
NoResult == [kind |-> "unset", val |-> <<>>, exc |-> <<>>]

\* the variables of the pure specifications, where they play no part
ClassifyIdle == msgIn = NoMsg /\ isNew = "unset"
TemplateIdle ==
  /\ whichIn = "on_new_message" /\ templateIn = NoTemplate
  /\ nameIn = <<>> /\ argvOut = NoArgv

\* ---- exceptions and their texts ----
\* str.replace('"', '\\"'): every double quote gets a backslash in front
RECURSIVE EscapePassword(_)
EscapePassword(pw) ==
  IF pw = <<>> THEN <<>>
  ELSE (IF Head(pw) = "\"" THEN <<"\\", "\"">> ELSE <<Head(pw)>>)
       \o EscapePassword(Tail(pw))

\* self.password once the cachedproperty holds a value
Password == EscapePassword(RawPassword)

Digits == <<"0","1","2","3","4","5","6","7","8","9">>

\* '{port}'.format(port=n) for an int n >= 0
RECURSIVE DecStr(_)
DecStr(n) ==
  IF n < 10 THEN <<Digits[n + 1]>>
  ELSE DecStr(n \div 10) \o <<Digits[(n % 10) + 1]>>

NoAttr == <<"<no attribute>">>

\* AuthError.__init__; Error.__str__ returns str(self.message)
AuthErrorNew(host, port, login, password) ==
  LET message == <<"c","o","u","l","d"," ","n","o","t"," ","a","u","t","h","e","n","t","i","c","a","t","e"," ","t","o"," ">> \o host \o <<":">> \o DecStr(port)
                 \o <<" ","u","s","i","n","g"," ">> \o login \o <<":">> \o password
  IN [class |-> "AuthError", str |-> message, message |-> message,
      data |-> [host |-> host, port |-> port, login |-> login,
                password |-> password]]

\* ConfigError.__init__
ConfigErrorNew(msg) ==
  [class |-> "ConfigError", str |-> msg, message |-> msg, data |-> <<>>]

\* PasswordEvalError.__init__
PasswordEvalErrorNew(command, err) ==
  LET message == <<"E","r","r","o","r"," ","w","h","i","l","e"," ","t","r","y","i","n","g"," ","t","o"," ","g","e","t"," ","p","a","s","s","w","o","r","d"," ","f","r","o","m"," ","c","o","m","m","a","n","d"," ">>
                 \o command \o <<":"," ">> \o err
  IN [class |-> "PasswordEvalError", str |-> message, message |-> message,
      data |-> [command |-> command, err |-> err]]

\* str() of the CalledProcessError of the password_eval command
CalledProcessErrorStr ==
  <<"C","o","m","m","a","n","d"," ","'","[","'","p","a","s","s","'","]","'"," ","r","e","t","u","r","n","e","d"," ","n","o","n","-","z","e","r","o"," ","e","x","i","t"," ","s","t","a","t","u","s"," ","1",".">>

\* An exception of aioimaplib or asyncio (asyncio.TimeoutError): str() is
\* empty and there is no `message` attribute.
LibErrorNew ==
  [class |-> "TimeoutError", str |-> <<>>, message |-> NoAttr, data |-> <<>>]
LibErrorRepr == <<"T","i","m","e","o","u","t","E","r","r","o","r","(",")">>

\* The exception object a watcher task ended with, by its kind.
Exc(kind) ==
  CASE kind = "AuthError" -> AuthErrorNew(Host, config.port, Login, Password)
    [] kind = "ConfigError" ->
         ConfigErrorNew(<<"m","i","s","s","i","n","g"," ","r","e","q","u","i","r","e","d"," ","f","i","e","l","d"," ","'","p","a","s","s","w","o","r","d","'">>)
    [] kind = "PasswordEvalError" ->
         PasswordEvalErrorNew(PasswordEvalCommand, CalledProcessErrorStr)
    [] OTHER -> LibErrorNew

\* get_error_message(exception)
GetErrorMessage(e) ==
  IF e.str # <<>> THEN e.str
  ELSE IF e.message # NoAttr /\ e.message # <<>> THEN e.message
  ELSE LibErrorRepr

\* The text of a logger.error record: run() logs get_error_message(err);
\* _run_on_new_message_callback logs the argv, the callback and the error
\* of the command.
LogMessage(rec) ==
  IF rec.kind = "callback"
  THEN <<"[","[","'","n","o","t","i","f","y","'","]","]"," ","e","r","r","o","r"," ","d","u","r","i","n","g"," ","r","u","n","n","i","n","g"," ","c","a","l","l","b","a","c","k"," ","r","u","n","_","c","o","m","m","a","n","d",":"," ","e","x","i","t"," ","s","t","a","t","u","s"," ","1">>
  ELSE GetErrorMessage(Exc(rec.kind))

\* ---- state after the module is loaded, before Notifier(config) ----
InitMain ==
  /\ config \in Configs
  /\ notifier = "none"
  /\ boxes = <<>>
  /\ passwordCache = "unset"
  /\ pwRuns = 0
  /\ tasks = {}
  /\ pc = [b \in BoxIds |-> "none"]
  /\ result = [b \in BoxIds |-> "none"]
  /\ cancelReq = [b \in BoxIds |-> FALSE]
  /\ ops = [b \in BoxIds |-> <<>>]
  /\ selResp = [b \in BoxIds |-> "none"]
  /\ loginResp = [b \in BoxIds |-> "none"]
  /\ peer = [b \in BoxIds |-> NoPeer]
  /\ queue = [b \in BoxIds |-> <<>>]
  /\ pushesSent = 0
  /\ qualified = [b \in BoxIds |-> 0]
  /\ primaryStarted = [b \in BoxIds |-> 0]
  /\ postStarted = [b \in BoxIds |-> 0]
  /\ running = [b \in BoxIds |-> {}]
  /\ log = {}
  /\ runPc = "idle"
  /\ runError = "none"
  /\ stopPc = "idle"
  /\ stopIdx = 0

PasswordIdle ==
  /\ pwConfig = [password |-> NoField, eval |-> NoEval]
  /\ pwSlot = NoField /\ pwResult = NoResult
  /\ pwCommandRuns = 0 /\ pwReads = 0

CommandIdle ==
  /\ cmdOut = 0 /\ cmdErr = 0 /\ cmdStatus = 0 /\ outPipe = 0 /\ errPipe = 0
  /\ proc = "none" /\ runner = "none" /\ data = 0

Init == InitMain /\ ClassifyIdle /\ TemplateIdle /\ PasswordIdle /\ CommandIdle

\* ---- helpers ----
Has(b, op) == \E i \in 1..Len(ops[b]) : ops[b][i] = op
Issue(b, op) == [ops EXCEPT ![b] = Append(@, op)]
Min(S) == CHOOSE x \in S : \A y \in S : x <= y

\* The watcher task of box b ends with exception kind res.
End(b, res) ==
  /\ pc' = [pc EXCEPT ![b] = "done"]
  /\ result' = [result EXCEPT ![b] = res]

Live(b) == pc[b] \notin {"none", "done"} /\ ~cancelReq[b]

\* ---- Notifier.__init__ ----
Construct ==
  /\ notifier = "none"
  /\ notifier' = (IF config.required THEN "constructed" ELSE "config_error")
  /\ UNCHANGED <<config, boxes, passwordCache, pwRuns, tasks, pc, result,
                 cancelReq, ops, selResp, loginResp, peer, queue, pushesSent, qualified,
                 primaryStarted, postStarted, running, log, runPc, runError,
                 stopPc, stopIdx, pureVars>>

\* ---- add_box(name, on_new_message, on_new_message_post) ----
\* The caller adds its mailboxes before it starts run(), at most `limit` of them.
AddBox(post, limit) ==
  /\ notifier = "constructed"
  /\ runPc = "idle"
  /\ Len(boxes) < limit
  /\ boxes' = Append(boxes, [post |-> post, connection |-> FALSE, idle |-> FALSE])
  /\ UNCHANGED <<config, notifier, passwordCache, pwRuns, tasks, pc, result,
                 cancelReq, ops, selResp, loginResp, peer, queue, pushesSent, qualified,
                 primaryStarted, postStarted, running, log, runPc, runError,
                 stopPc, stopIdx, pureVars>>

\* ---- run(), up to `await asyncio.wait(self.tasks)` ----
\* asyncio.wait raises ValueError on an empty collection.
RunStart ==
  /\ notifier = "constructed"
  /\ runPc = "idle"
  /\ tasks' = 1..Len(boxes)
  /\ pc' = [b \in BoxIds |-> IF b \in 1..Len(boxes) THEN "start" ELSE pc[b]]
  /\ IF Len(boxes) = 0
     THEN runPc' = "raised" /\ runError' = "ValueError"
     ELSE runPc' = "waiting" /\ UNCHANGED runError
  /\ UNCHANGED <<config, notifier, boxes, passwordCache, pwRuns, result,
                 cancelReq, ops, selResp, loginResp, peer, queue, pushesSent, qualified,
                 primaryStarted, postStarted, running, log, stopPc, stopIdx,
                 pureVars>>

WaitCompletedFirst == \E b \in tasks : pc[b] = "done"

\* asyncio.wait(..., return_when=ALL_COMPLETED), the default
WaitCompleted == \A b \in tasks : pc[b] = "done"

\* ---- run(), after asyncio.wait: the loop over `done` ----
\* task.exception() raises CancelledError for a cancelled task; `done` is a
\* set, so the failures logged before that point are any subset of the rest.
RunFinish ==
  /\ runPc = "waiting"
  /\ WaitCompleted
  /\ LET ended == {b \in tasks : pc[b] = "done"}
         cancelled == {b \in ended : result[b] = "Cancelled"}
         failed == {b \in ended : result[b] \notin {"Cancelled", "none"}}
         Rec(S) == {[box |-> b, kind |-> result[b]] : b \in S}
     IN IF cancelled # {}
        THEN /\ \E S \in SUBSET failed : log' = log \cup Rec(S)
             /\ runPc' = "raised"
             /\ runError' = "CancelledError"
        ELSE /\ log' = log \cup Rec(failed)
             /\ runPc' = "returned"
             /\ UNCHANGED runError
  /\ UNCHANGED <<config, notifier, boxes, passwordCache, pwRuns, tasks, pc,
                 result, cancelReq, ops, selResp, loginResp, peer, queue, pushesSent, qualified,
                 primaryStarted, postStarted, running, stopPc, stopIdx,
                 pureVars>>

\* variables no watcher step touches
supVars == <<config, notifier, tasks, pushesSent, runPc, runError, stopPc,
             stopIdx, pureVars>>

dispatchVars == <<queue, qualified, primaryStarted, postStarted, running>>

\* _connect line 77: aioimaplib.IMAP4_SSL(host=self.host); the port argument
\* is left to its default
ConnectPeer == [host |-> Host, port |-> DefaultPort]

\* ---- _idle -> _select_box -> _connect, up to `await wait_hello_from_server()` ----
\* IMAP4_SSL(host=...) opens the connection.
TaskStart(b) ==
  /\ pc[b] = "start" /\ Live(b)
  /\ ops' = Issue(b, "connect")
  /\ peer' = [peer EXCEPT ![b] = ConnectPeer]
  /\ pc' = [pc EXCEPT ![b] = "hello"]
  /\ UNCHANGED <<boxes, passwordCache, pwRuns, result, cancelReq, selResp, loginResp,
                 log, dispatchVars, supVars>>

\* The cachedproperty `password`: the value is stored in the instance only
\* when _get_password returns; an exception leaves the slot empty.
PwOutcome ==
  IF passwordCache = "set" THEN "cached"
  ELSE CASE config.pw = "value" -> "computed"
         [] config.pw = "eval_fail" -> "PasswordEvalError"
         [] config.pw = "missing" -> "ConfigError"

\* ---- _connect, from the greeting to `await imap_client.login(...)` ----
\* The arguments of login(), self.password among them, are evaluated here.
HelloDone(b) ==
  /\ pc[b] = "hello" /\ Live(b)
  /\ \E o \in {"ok", "raise"} :
       /\ IF o = "raise"
          THEN /\ End(b, "LibError")
               /\ UNCHANGED <<passwordCache, pwRuns, ops>>
          ELSE /\ pwRuns' = (IF PwOutcome = "cached" THEN pwRuns ELSE pwRuns + 1)
               /\ passwordCache' = (IF PwOutcome \in {"cached", "computed"}
                                    THEN "set" ELSE passwordCache)
               /\ IF PwOutcome \in {"cached", "computed"}
                  THEN /\ ops' = Issue(b, "login")
                       /\ pc' = [pc EXCEPT ![b] = "login"]
                       /\ UNCHANGED result
                  ELSE /\ End(b, PwOutcome)
                       /\ UNCHANGED ops
  /\ UNCHANGED <<boxes, cancelReq, selResp, loginResp, peer, log, dispatchVars, supVars>>

LoginAcceptedAlways(resp) == TRUE

\* _connect line 80: `if resp.result == 'OK':`
LoginAccepted(resp) == resp = "OK"

\* ---- _connect after the login response; _select_box up to `await select` ----
LoginDone(b) ==
  /\ pc[b] = "login" /\ Live(b)
  /\ \E resp \in {"OK", "NO", "raise"} :
       /\ CASE resp = "raise" ->
                 /\ End(b, "LibError")
                 /\ UNCHANGED <<boxes, ops, loginResp>>
            [] resp # "raise" /\ LoginAccepted(resp) ->
                 /\ loginResp' = [loginResp EXCEPT ![b] = resp]
                 /\ boxes' = [boxes EXCEPT ![b].connection = TRUE]
                 /\ ops' = Issue(b, "select")
                 /\ pc' = [pc EXCEPT ![b] = "select"]
                 /\ UNCHANGED result
            [] OTHER ->
                 /\ loginResp' = [loginResp EXCEPT ![b] = resp]
                 /\ ops' = Issue(b, "logout")
                 /\ pc' = [pc EXCEPT ![b] = "auth_logout"]
                 /\ UNCHANGED <<boxes, result>>
  /\ UNCHANGED <<passwordCache, pwRuns, cancelReq, selResp, peer, log,
                 dispatchVars, supVars>>

\* ---- _connect: `await imap_client.logout()` returned; raise AuthError ----
AuthLogoutDone(b) ==
  /\ pc[b] = "auth_logout" /\ Live(b)
  /\ \E o \in {"ok", "raise"} :
       /\ End(b, IF o = "ok" THEN "AuthError" ELSE "LibError")
  /\ UNCHANGED <<boxes, passwordCache, pwRuns, cancelReq, ops, selResp, loginResp, peer, log,
                 dispatchVars, supVars>>

\* _select_box line 129-131: the response of select() is not inspected; the
\* coroutine goes on whenever the await returns.
SelectProceeds(resp) == resp \in {"OK", "NO"}

\* ---- _select_box after `await select`; _idle up to `await wait_server_push()` ----
SelectDone(b) ==
  /\ pc[b] = "select" /\ Live(b)
  /\ \E resp \in {"OK", "NO", "raise"} :
       /\ IF resp # "raise" /\ SelectProceeds(resp)
          THEN /\ selResp' = [selResp EXCEPT ![b] = resp]
               /\ ops' = Issue(b, "idle")
               /\ boxes' = [boxes EXCEPT ![b].idle = TRUE]
               /\ pc' = [pc EXCEPT ![b] = "wait"]
               /\ UNCHANGED result
          ELSE /\ selResp' = [selResp EXCEPT ![b] = IF resp = "raise" THEN @ ELSE resp]
               /\ End(b, "LibError")
               /\ UNCHANGED <<boxes, ops>>
  /\ UNCHANGED <<passwordCache, pwRuns, cancelReq, loginResp, peer, log,
                 dispatchVars, supVars>>

\* ---- the server sends a push on an idling connection, at most `limit` ----
\* ---- of them in all                                                   ----
ServerPush(b, limit) ==
  /\ pc[b] \in {"wait", "primary", "post"}
  /\ selResp[b] = "OK"
  /\ ~Has(b, "idle_done") /\ ~Has(b, "logout")
  /\ pushesSent < limit
  /\ \E msg \in SamplePushes : queue' = [queue EXCEPT ![b] = Append(@, msg)]
  /\ pushesSent' = pushesSent + 1
  /\ UNCHANGED <<config, notifier, boxes, passwordCache, pwRuns, tasks, pc,
                 result, cancelReq, ops, selResp, loginResp, peer, qualified, primaryStarted,
                 postStarted, running, log, runPc, runError, stopPc, stopIdx,
                 pureVars>>

\* The marker occurs in the push: in the line, or in some line of the sequence.
OccursIn(line) == \E i \in 1..Len(line) : \E j \in i..Len(line) : SubSeq(line, i, j) = Marker
MarkerOccurs(msg) ==
  IF msg.kind = "line" THEN OccursIn(msg.val)
  ELSE \E i \in 1..Len(msg.val) : OccursIn(msg.val[i])

ShouldDispatchAlways(msg) == TRUE

\* _idle line 119: `if self._is_new_msg(msg):`
ShouldDispatch(msg) == Truthy(IsNewMsg(msg))

PcAfterSpawnNoAwait(cmd) == "wait"

\* _idle lines 121-122: the watcher awaits the command it has spawned
PcAfterSpawn(cmd) == cmd

CallbackReturnsOnSuccessOnly(o) == o = "ok"

\* _run_on_new_message_callback line 169: `except Exception` handles every
\* failure of the awaited command
CallbackReturns(o) == o \in {"ok", "nonzero", "oserror"}

\* check_output: exit status 0, CalledProcessError, or the spawn fails (OSError)
CmdOutcomes == {"ok", "nonzero", "oserror"}

CallbackLog(b, o) ==
  IF o = "ok" THEN log ELSE log \cup {[box |-> b, kind |-> "callback"]}

\* ---- _idle: wait_server_push returned or raised; up to the next await ----
WaitPush(b) ==
  /\ pc[b] = "wait" /\ Live(b)
  /\ \/ /\ queue[b] # <<>>
        /\ LET msg == Head(queue[b]) IN
             /\ queue' = [queue EXCEPT ![b] = Tail(@)]
             /\ qualified' = [qualified EXCEPT ![b] = IF MarkerOccurs(msg) THEN @ + 1 ELSE @]
             /\ IF ShouldDispatch(msg)
                THEN /\ primaryStarted' = [primaryStarted EXCEPT ![b] = @ + 1]
                     /\ running' = [running EXCEPT ![b] = @ \cup {"primary"}]
                     /\ pc' = [pc EXCEPT ![b] = PcAfterSpawn("primary")]
                ELSE UNCHANGED <<primaryStarted, running, pc>>
        /\ UNCHANGED <<ops, result>>
     \/ /\ ops' = Issue(b, "idle_done")
        /\ End(b, "LibError")
        /\ UNCHANGED <<queue, qualified, primaryStarted, running>>
  /\ UNCHANGED <<boxes, passwordCache, pwRuns, cancelReq, selResp, loginResp, peer, postStarted,
                 log, supVars>>

\* ---- _on_new_message completed; _on_new_message_post up to its await ----
PrimaryDone(b) ==
  /\ pc[b] = "primary" /\ Live(b)
  /\ \E o \in CmdOutcomes :
       /\ IF CallbackReturns(o)
          THEN /\ log' = CallbackLog(b, o)
               /\ IF boxes[b].post
                  THEN /\ postStarted' = [postStarted EXCEPT ![b] = @ + 1]
                       /\ running' = [running EXCEPT ![b] = (@ \ {"primary"}) \cup {"post"}]
                       /\ pc' = [pc EXCEPT ![b] = PcAfterSpawn("post")]
                  ELSE /\ running' = [running EXCEPT ![b] = @ \ {"primary"}]
                       /\ pc' = [pc EXCEPT ![b] = "wait"]
                       /\ UNCHANGED postStarted
               /\ UNCHANGED <<ops, result>>
          ELSE /\ running' = [running EXCEPT ![b] = @ \ {"primary"}]
               /\ ops' = Issue(b, "idle_done")
               /\ End(b, "CommandError")
               /\ UNCHANGED <<log, postStarted>>
  /\ UNCHANGED <<boxes, passwordCache, pwRuns, cancelReq, selResp, loginResp, peer, queue, qualified, primaryStarted, supVars>>

\* ---- _on_new_message_post completed; back to `await wait_server_push()` ----
PostDone(b) ==
  /\ pc[b] = "post" /\ Live(b)
  /\ \E o \in CmdOutcomes :
       /\ running' = [running EXCEPT ![b] = @ \ {"post"}]
       /\ IF CallbackReturns(o)
          THEN /\ log' = CallbackLog(b, o)
               /\ pc' = [pc EXCEPT ![b] = "wait"]
               /\ UNCHANGED <<ops, result>>
          ELSE /\ ops' = Issue(b, "idle_done")
               /\ End(b, "CommandError")
               /\ UNCHANGED log
  /\ UNCHANGED <<boxes, passwordCache, pwRuns, cancelReq, selResp, loginResp, peer, queue, qualified, primaryStarted, postStarted, supVars>>

\* ---- CancelledError is thrown into the watcher at the await it is suspended on ----
\* Inside the try block of _idle the finally clause runs client.idle_done().
Cancelled(b) ==
  /\ cancelReq[b] /\ pc[b] \notin {"none", "done"}
  /\ cancelReq' = [cancelReq EXCEPT ![b] = FALSE]
  /\ ops' = (IF pc[b] \in {"wait", "primary", "post"} THEN Issue(b, "idle_done") ELSE ops)
  /\ End(b, "Cancelled")
  /\ UNCHANGED <<boxes, passwordCache, pwRuns, selResp, loginResp, peer, log,
                 dispatchVars, supVars>>

\* ---- stop(): the loop over self.boxes from box i to its next await, or, ----
\* ---- past the last box, the loop over self.tasks                       ----
StopFrom(i) ==
  LET conns == {j \in i..Len(boxes) : boxes[j].connection} IN
  IF conns # {}
  THEN /\ ops' = [ops EXCEPT ![Min(conns)] = @ \o <<"idle_done", "logout">>]
       /\ stopPc' = "logout"
       /\ stopIdx' = Min(conns)
       /\ UNCHANGED cancelReq
  ELSE /\ IF runPc = "idle"
          THEN stopPc' = "attribute_error" /\ UNCHANGED cancelReq
          ELSE /\ stopPc' = "done"
               /\ cancelReq' = [b \in BoxIds |->
                     IF b \in tasks /\ pc[b] # "done" THEN TRUE ELSE cancelReq[b]]
       /\ UNCHANGED <<ops, stopIdx>>

stopFrame == <<config, notifier, boxes, passwordCache, pwRuns, tasks, pc, result,
               selResp, loginResp, peer, queue, pushesSent, qualified, primaryStarted,
               postStarted, running, log, runPc, runError, pureVars>>

StopStart ==
  /\ notifier = "constructed"
  /\ stopPc = "idle"
  /\ StopFrom(1)
  /\ UNCHANGED stopFrame

\* ---- stop(): `await box['connection'].logout()` returned or raised ----
StopLogoutDone ==
  /\ stopPc = "logout"
  /\ \E o \in {"ok", "raise"} :
       /\ IF o = "ok" THEN StopFrom(stopIdx + 1)
          ELSE stopPc' = "raised" /\ UNCHANGED <<ops, stopIdx, cancelReq>>
  /\ UNCHANGED stopFrame

\* run() and the watcher tasks, with the server they talk to
RunSteps(pushes) ==
  \/ Construct
  \/ RunStart
  \/ RunFinish
  \/ \E b \in BoxIds : TaskStart(b)
  \/ \E b \in BoxIds : HelloDone(b)
  \/ \E b \in BoxIds : LoginDone(b)
  \/ \E b \in BoxIds : AuthLogoutDone(b)
  \/ \E b \in BoxIds : SelectDone(b)
  \/ \E b \in BoxIds : ServerPush(b, pushes)
  \/ \E b \in BoxIds : WaitPush(b)
  \/ \E b \in BoxIds : PrimaryDone(b)
  \/ \E b \in BoxIds : PostDone(b)

\* stop(), called from outside at any moment, and the cancellations it causes
StopSteps ==
  \/ StopStart
  \/ StopLogoutDone
  \/ \E b \in BoxIds : Cancelled(b)

Next ==
  \/ \E post \in BOOLEAN : AddBox(post, NumBoxes)
  \/ RunSteps(MaxPushes)
  \/ StopSteps

\* The program: up to NumBoxes mailboxes, run(), and stop() at any moment.
Spec == Init /\ [][Next]_vars

NextRun ==
  \/ \E post \in BOOLEAN : AddBox(post, NumBoxes)
  \/ RunSteps(RunPushes)

\* The behaviours of the program in which nobody calls stop(), with up to
\* RunPushes pushes.
SpecRun == Init /\ [][NextRun]_vars

NextDispatch ==
  \/ \E post \in BOOLEAN : AddBox(post, DispatchBoxes)
  \/ RunSteps(MaxPushes)
  \/ StopSteps

\* The program with up to DispatchBoxes mailboxes, for the claims about one
\* mailbox's dispatch loop.
SpecDispatch == Init /\ [][NextDispatch]_vars

\* ---- the classification alone, over pushes of both shapes ----
Prefixes == { <<>>, <<"2"," ">> }
Cores == { Marker,
           <<"E","X","I","S","T">>,
           <<"e","x","i","s","t","s">>,
           <<"R","E","C","E","N","T">>,
           <<"E","X","E","X","I","S","T","S">>,
           <<>> }
Suffixes == { <<>>, <<"S">>, <<" ","O","K">> }
Lines == { p \o c \o s : p \in Prefixes, c \in Cores, s \in Suffixes }

\* the lines that sequences are built from
SeqLines == { <<>>, Marker, LineExists, LineRecent, LineOk,
              <<"E","X","I","S","T">>, <<"2"," ","E","X","I","S","T","S"," ","O","K">> }

RECURSIVE SeqsOf(_, _)
SeqsOf(S, n) ==
  IF n = 0 THEN { <<>> }
  ELSE LET shorter == SeqsOf(S, n - 1)
       IN shorter \cup { Append(q, x) : q \in {r \in shorter : Len(r) = n - 1}, x \in S }

Pushes ==
  { [kind |-> "line", val |-> l] : l \in Lines } \cup
  { [kind |-> "seq", val |-> q] : q \in SeqsOf(SeqLines, MaxPushLen) }

InitPure ==
  /\ InitMain
  /\ config = [required |-> TRUE, pw |-> "value", port |-> DefaultPort]
  /\ msgIn \in Pushes
  /\ isNew = "unset"
  /\ TemplateIdle /\ PasswordIdle /\ CommandIdle

\* msg handed to _is_new_msg
Classify ==
  /\ isNew = "unset"
  /\ isNew' = IsNewMsg(msgIn)
  /\ UNCHANGED <<mainVars, msgIn, templateVars, passwordVars, commandVars>>

NextPure == Classify

SpecPure == InitPure /\ [][NextPure]_vars

\* ---- command templates: `command % box` and shlex.split(command) ----
Placeholder == <<"%","s">>

\* position of the conversion character of a format specifier whose flags
\* start at i (a space is a flag); 0 when the string ends first
RECURSIVE ConvAt(_, _)
ConvAt(t, i) ==
  IF i > Len(t) THEN 0 ELSE IF t[i] = " " THEN ConvAt(t, i + 1) ELSE i

\* Python `t % arg` for a str t and a single str argument: %s takes the
\* argument, %% is a percent sign, %d rejects a str, any other character after
\* % is unsupported; the one argument must be taken exactly once.
RECURSIVE Fmt(_, _, _, _, _)
Fmt(t, i, arg, used, acc) ==
  IF i > Len(t)
  THEN IF used THEN [ok |-> TRUE, val |-> acc, exc |-> "none"]
       ELSE [ok |-> FALSE, val |-> <<>>, exc |-> "TypeError"]
  ELSE IF t[i] # "%" THEN Fmt(t, i + 1, arg, used, Append(acc, t[i]))
  ELSE LET c == ConvAt(t, i + 1) IN
       IF c = 0 THEN [ok |-> FALSE, val |-> <<>>, exc |-> "ValueError"]
       ELSE IF t[c] = "%" THEN Fmt(t, c + 1, arg, used, Append(acc, "%"))
       ELSE IF t[c] = "s"
            THEN IF used THEN [ok |-> FALSE, val |-> <<>>, exc |-> "TypeError"]
                 ELSE Fmt(t, c + 1, arg, TRUE, acc \o arg)
       ELSE IF t[c] = "d" THEN [ok |-> FALSE, val |-> <<>>, exc |-> "TypeError"]
       ELSE [ok |-> FALSE, val |-> <<>>, exc |-> "ValueError"]

Format(t, arg) == Fmt(t, 1, arg, FALSE, <<>>)

\* shlex.split(s) in POSIX mode over strings without double quotes and
\* backslashes: spaces separate tokens, single quotes group and are removed,
\* an unclosed quote raises ValueError.
RECURSIVE Shlex(_, _, _, _, _, _)
Shlex(s, i, cur, hasCur, inQuote, toks) ==
  IF i > Len(s)
  THEN IF inQuote THEN [ok |-> FALSE, val |-> <<>>, exc |-> "ValueError"]
       ELSE [ok |-> TRUE, val |-> (IF hasCur THEN Append(toks, cur) ELSE toks),
             exc |-> "none"]
  ELSE IF inQuote
       THEN IF s[i] = "'" THEN Shlex(s, i + 1, cur, TRUE, FALSE, toks)
            ELSE Shlex(s, i + 1, Append(cur, s[i]), TRUE, TRUE, toks)
  ELSE IF s[i] = " "
       THEN IF hasCur THEN Shlex(s, i + 1, <<>>, FALSE, FALSE, Append(toks, cur))
            ELSE Shlex(s, i + 1, <<>>, FALSE, FALSE, toks)
  ELSE IF s[i] = "'" THEN Shlex(s, i + 1, cur, TRUE, TRUE, toks)
  ELSE Shlex(s, i + 1, Append(cur, s[i]), TRUE, FALSE, toks)

ShlexSplit(s) == Shlex(s, 1, <<>>, FALSE, FALSE, <<>>)

\* _on_new_message lines 143-149 and _on_new_message_post lines 152-160, up
\* to the argv handed to run_command: the argv, the exception raised on the
\* way, or (post-command not configured) nothing to spawn.
SpawnArgv(which, template, box) ==
  IF which = "on_new_message_post" /\ (template = NoTemplate \/ template = <<>>)
  THEN [kind |-> "noop", val |-> <<>>, exc |-> "none"]
  ELSE LET command == IF StrIn(Placeholder, template)
                      THEN Format(template, box)
                      ELSE [ok |-> TRUE, val |-> template, exc |-> "none"]
       IN IF ~command.ok
          THEN [kind |-> "raise", val |-> <<>>, exc |-> command.exc]
          ELSE LET argv == ShlexSplit(command.val)
               IN IF argv.ok THEN [kind |-> "argv", val |-> argv.val, exc |-> "none"]
                  ELSE [kind |-> "raise", val |-> <<>>, exc |-> argv.exc]

\* command templates and mailbox names
Templates ==
  { <<"n">>,
    <<"n"," ","%","s">>,
    <<"n"," ","'","%","s","'">>,
    <<"%","s">>,
    <<"n"," ","%","%"," ","%","s">>,
    <<"n"," ","%","%","s">>,
    <<"n"," ","%","s"," ","%","s">>,
    <<"n"," ","%","d"," ","%","s">>,
    <<"n"," ","%","s","'">>,
    <<"n"," ","5","%">> }
BoxNames ==
  { <<"a">>,
    <<"a"," ","b">>,
    <<"a","'","b">>,
    <<"a"," "," ","b">>,
    <<"a","%","s","b">>,
    <<"a"," ","b","'">> }
CommandKinds == {"on_new_message", "on_new_message_post"}

InitTemplate ==
  /\ InitMain
  /\ config = [required |-> TRUE, pw |-> "value", port |-> DefaultPort]
  /\ ClassifyIdle /\ PasswordIdle /\ CommandIdle
  /\ whichIn \in CommandKinds
  /\ templateIn \in Templates \cup (IF whichIn = "on_new_message_post"
                                    THEN {NoTemplate} ELSE {})
  /\ nameIn \in BoxNames
  /\ argvOut = NoArgv

\* one dispatch of the command for mailbox nameIn
Substitute ==
  /\ argvOut = NoArgv
  /\ argvOut' = SpawnArgv(whichIn, templateIn, nameIn)
  /\ UNCHANGED <<mainVars, classifyVars, passwordVars, commandVars, whichIn,
                 templateIn, nameIn>>

NextTemplate == Substitute

SpecTemplate == InitTemplate /\ [][NextTemplate]_vars

\* ---- password resolution: the cachedproperty and _get_password ----
LineEndings == {"\r", "\n"}

\* str.strip('\r\n'): the characters are removed at both ends
RECURSIVE LStrip(_)
LStrip(s) ==
  IF s # <<>> /\ Head(s) \in LineEndings THEN LStrip(Tail(s)) ELSE s
RECURSIVE RStrip(_)
RStrip(s) ==
  IF s # <<>> /\ s[Len(s)] \in LineEndings
  THEN RStrip(SubSeq(s, 1, Len(s) - 1)) ELSE s
Strip(s) == RStrip(LStrip(s))

EvalFailsNever(status) == FALSE

\* subprocess.check_output raises CalledProcessError on a non-zero exit status
EvalFails(status) == status # 0

\* Does _get_password run the external command for this configuration?
RunsCommand(cfg) == cfg.eval.present

\* _get_password lines 64-72: the value returned or the exception raised
GetPassword(cfg) ==
  IF cfg.eval.present
  THEN IF cfg.eval.outcome = "notfound"
       THEN [kind |-> "raise", val |-> <<>>,
             exc |-> [class |-> "FileNotFoundError", str |-> <<>>,
                      message |-> NoAttr, data |-> <<>>]]
       ELSE IF EvalFails(cfg.eval.status)
       THEN [kind |-> "raise", val |-> <<>>,
             exc |-> PasswordEvalErrorNew(PasswordEvalCommand, CalledProcessErrorStr)]
       ELSE [kind |-> "value", val |-> Strip(cfg.eval.out), exc |-> <<>>]
  ELSE IF cfg.password # NoField
       THEN [kind |-> "value", val |-> cfg.password, exc |-> <<>>]
       ELSE [kind |-> "raise", val |-> <<>>,
             exc |-> ConfigErrorNew(<<"m","i","s","s","i","n","g"," ","r","e","q","u","i","r","e","d"," ","f","i","e","l","d"," ","'","p","a","s","s","w","o","r","d","'">>)]

\* the property body, line 61
ComputePassword(cfg) ==
  LET got == GetPassword(cfg)
  IN IF got.kind = "value"
     THEN [kind |-> "value", val |-> EscapePassword(got.val), exc |-> <<>>]
     ELSE got

Literals == { <<"p","w">>, <<"s","\"","c">>, <<"p","\n">> }
EvalOutputs == { <<"p","w","\n">>,
                 <<"p","w","\r","\n">>,
                 <<"\n","p","w","\n">>,
                 <<"s","\"","c","\n">>,
                 <<"p","w">> }
EvalFields ==
  {NoEval} \cup
  {[present |-> TRUE, outcome |-> "exit", status |-> st, out |-> o] :
      st \in {0, 1}, o \in EvalOutputs} \cup
  {[present |-> TRUE, outcome |-> "notfound", status |-> 0, out |-> <<>>]}
PwConfigs == [password : Literals \cup {NoField}, eval : EvalFields]

MaxReads == 2   \* reads of self.password in one behaviour of SpecPassword

InitPassword ==
  /\ InitMain
  /\ config = [required |-> TRUE, pw |-> "value", port |-> DefaultPort]
  /\ ClassifyIdle /\ TemplateIdle /\ CommandIdle
  /\ pwConfig \in PwConfigs
  /\ pwSlot = NoField
  /\ pwResult = NoResult
  /\ pwCommandRuns = 0
  /\ pwReads = 0

\* one read of self.password: the stored value, or the property body, whose
\* value cachedproperty stores in the instance when it returns
ReadPassword ==
  /\ pwReads < MaxReads
  /\ pwReads' = pwReads + 1
  /\ IF pwSlot # NoField
     THEN /\ pwResult' = [kind |-> "value", val |-> pwSlot, exc |-> <<>>]
          /\ UNCHANGED <<pwSlot, pwCommandRuns>>
     ELSE /\ pwResult' = ComputePassword(pwConfig)
          /\ pwCommandRuns' = pwCommandRuns + (IF RunsCommand(pwConfig) THEN 1 ELSE 0)
          /\ pwSlot' = (IF pwResult'.kind = "value" THEN pwResult'.val ELSE pwSlot)
  /\ UNCHANGED <<mainVars, classifyVars, templateVars, commandVars, pwConfig>>

NextPassword == ReadPassword

SpecPassword == InitPassword /\ [][NextPassword]_vars

\* ---- check_output: the command runner and the process it spawns ----
PipeCapacity == 2   \* chunks a pipe holds before a write to it blocks
MaxOutput == 2      \* chunks a process writes to stdout, at most

\* The process writes MaxOutput or fewer chunks to stdout and up to one more
\* than a pipe holds to stderr, in any order, then exits.
InitCommand ==
  /\ InitMain
  /\ config = [required |-> TRUE, pw |-> "value", port |-> DefaultPort]
  /\ ClassifyIdle /\ TemplateIdle /\ PasswordIdle
  /\ cmdOut \in 0..MaxOutput
  /\ cmdErr \in 0..(PipeCapacity + 1)
  /\ cmdStatus \in {0, 1}
  /\ outPipe = 0 /\ errPipe = 0
  /\ proc = "none" /\ runner = "start" /\ data = 0

\* lines 182-184: create_subprocess_exec with stdout=PIPE and stderr=PIPE
Spawn ==
  /\ runner = "start"
  /\ \/ proc' = "running" /\ runner' = "reading"
     \/ proc' = "none" /\ runner' = "raised"
  /\ UNCHANGED <<mainVars, classifyVars, templateVars, passwordVars, cmdOut,
                 cmdErr, cmdStatus, outPipe, errPipe, data>>

\* the process writes a chunk to stdout; the write blocks while the pipe is full
ProcWriteOut ==
  /\ proc = "running" /\ cmdOut > 0 /\ outPipe < PipeCapacity
  /\ cmdOut' = cmdOut - 1 /\ outPipe' = outPipe + 1
  /\ UNCHANGED <<mainVars, classifyVars, templateVars, passwordVars, cmdErr,
                 cmdStatus, errPipe, proc, runner, data>>

\* the process writes a chunk to stderr; the write blocks while the pipe is full
ProcWriteErr ==
  /\ proc = "running" /\ cmdErr > 0 /\ errPipe < PipeCapacity
  /\ cmdErr' = cmdErr - 1 /\ errPipe' = errPipe + 1
  /\ UNCHANGED <<mainVars, classifyVars, templateVars, passwordVars, cmdOut,
                 cmdStatus, outPipe, proc, runner, data>>

\* the process exits when it has written everything; its stdout is closed
ProcExit ==
  /\ proc = "running" /\ cmdOut = 0 /\ cmdErr = 0
  /\ proc' = "exited"
  /\ UNCHANGED <<mainVars, classifyVars, templateVars, passwordVars, cmdOut,
                 cmdErr, cmdStatus, outPipe, errPipe, runner, data>>

\* lines 186-187: `async for line in proc.stdout: data.extend(line)`
ReadLine ==
  /\ runner = "reading" /\ outPipe > 0
  /\ outPipe' = outPipe - 1 /\ data' = data + 1
  /\ UNCHANGED <<mainVars, classifyVars, templateVars, passwordVars, cmdOut,
                 cmdErr, cmdStatus, errPipe, proc, runner>>

\* the loop ends at end of stream; line 188: `await proc.wait()`
ReadEof ==
  /\ runner = "reading" /\ outPipe = 0 /\ proc = "exited"
  /\ runner' = "waiting"
  /\ UNCHANGED <<mainVars, classifyVars, templateVars, passwordVars, cmdOut,
                 cmdErr, cmdStatus, outPipe, errPipe, proc, data>>

\* lines 189-192: the exit status decides between CalledProcessError and data
WaitDone ==
  /\ runner = "waiting" /\ proc = "exited"
  /\ runner' = (IF cmdStatus # 0 THEN "raised" ELSE "returned")
  /\ UNCHANGED <<mainVars, classifyVars, templateVars, passwordVars, cmdOut,
                 cmdErr, cmdStatus, outPipe, errPipe, proc, data>>

NextCommand ==
  \/ Spawn
  \/ ProcWriteOut
  \/ ProcWriteErr
  \/ ProcExit
  \/ ReadLine
  \/ ReadEof
  \/ WaitDone

\* The event loop resumes a coroutine whose await is ready and the operating
\* system runs a process that is not blocked: a step that can be taken is
\* eventually taken.
SpecCommand == InitCommand /\ [][NextCommand]_vars /\ WF_vars(NextCommand)

\* ======================= claims =======================

Failed(b) == pc[b] = "done" /\ result[b] \notin {"none", "Cancelled"}

\* C1: run() does not finish while a watcher task is still running; a step in
\* which one watcher fails leaves every other watcher's position, result and
\* cancellation flag untouched; and a watcher with a failed sibling that
\* consumes a push carrying the marker starts its primary command.
C1_FailureIsolated ==
  /\ [](runPc \in {"returned", "raised"} => \A b \in tasks : pc[b] = "done")
  /\ [][\A k \in BoxIds :
          (pc[k] # "done" /\ pc'[k] = "done" /\ result'[k] # "Cancelled")
          => \A j \in BoxIds \ {k} :
               pc'[j] = pc[j] /\ result'[j] = result[j] /\ cancelReq'[j] = cancelReq[j]]_vars
  /\ [][\A j \in BoxIds :
          ( /\ \E k \in BoxIds \ {j} : Failed(k)
            /\ Len(queue'[j]) < Len(queue[j])
            /\ MarkerOccurs(Head(queue[j])) )
          => /\ primaryStarted'[j] = primaryStarted[j] + 1
             /\ pc'[j] = "primary"
             /\ "primary" \in running'[j]]_vars

\* box 1 was rejected at login, box 2 is dispatching, run() still waits
C1_Witness ==
  /\ result[1] = "AuthError" /\ pc[1] = "done"
  /\ pc[2] = "primary"
  /\ runPc = "waiting"

\* C2 (as claimed): once run() has finished over a non-empty task list it has
\* returned normally, with every failed task logged.
C2_RunNeverRaises ==
  (runPc \in {"returned", "raised"} /\ tasks # {})
  => /\ runPc = "returned"
     /\ \A b \in tasks : Failed(b) => [box |-> b, kind |-> result[b]] \in log

IdleDoneThenLogout(b) ==
  \E i \in 1..Len(ops[b]) : \E j \in (i+1)..Len(ops[b]) :
     ops[b][i] = "idle_done" /\ ops[b][j] = "logout"

\* C3 (as claimed): when stop() has run to its end, every mailbox with a
\* recorded connection has had IDLE-exit and then logout issued on it.
C3_StopLogsOutEveryConnection ==
  stopPc = "done"
  => \A b \in 1..Len(boxes) : boxes[b].connection => IdleDoneThenLogout(b)

C5_DispatchesSequential ==
  /\ [](\A b \in BoxIds :
          /\ Cardinality(running[b]) <= 1
          /\ pc[b] = "wait" => running[b] = {}
          /\ postStarted[b] <= primaryStarted[b] - (IF "primary" \in running[b] THEN 1 ELSE 0))
  /\ [][\A b \in BoxIds :
          Len(queue'[b]) < Len(queue[b]) => (pc[b] = "wait" /\ running[b] = {})]_vars

\* the second dispatch of box 1 started after the whole first one completed
C5_Witness ==
  /\ boxes # <<>> /\ boxes[1].post
  /\ primaryStarted[1] = 2 /\ postStarted[1] = 1
  /\ running[1] = {"primary"} /\ pc[1] = "primary"

\* C6: the primary command has been spawned exactly once per consumed push
\* that carries the marker; back at awaiting pushes the post-command has been
\* spawned as often, if configured, and never otherwise; consuming a push
\* without the marker spawns nothing and leaves the watcher awaiting pushes.
C6_DispatchIffQualifying ==
  /\ [](\A b \in BoxIds :
          /\ primaryStarted[b] = qualified[b]
          /\ postStarted[b] <= primaryStarted[b]
          /\ pc[b] = "wait" =>
               postStarted[b] = (IF boxes[b].post THEN qualified[b] ELSE 0))
  /\ [][\A b \in BoxIds :
          (Len(queue'[b]) < Len(queue[b]) /\ ~MarkerOccurs(Head(queue[b])))
          => /\ pc'[b] = "wait"
             /\ primaryStarted'[b] = primaryStarted[b]
             /\ postStarted'[b] = postStarted[b]
             /\ running'[b] = running[b]]_vars

\* the only mailbox consumed two pushes, one of them carrying the marker,
\* and ran one primary and one post command
C6_Witness ==
  /\ Len(boxes) = 1 /\ boxes[1].post
  /\ pushesSent = 2 /\ queue[1] = <<>>
  /\ qualified[1] = 1 /\ primaryStarted[1] = 1 /\ postStarted[1] = 1
  /\ pc[1] = "wait"

\* C7: the classification of a push is true exactly when the marker occurs in
\* the line or in some line of the sequence; otherwise nothing is returned.
C7_ClassificationIffMarker ==
  isNew # "unset"
  => /\ isNew \in {"True", "None"}
     /\ Truthy(isNew) <=> MarkerOccurs(msgIn)

\* a sequence whose second line carries the marker inside a longer line
C7_Witness ==
  /\ isNew = "True"
  /\ msgIn.kind = "seq" /\ Len(msgIn.val) = 2
  /\ msgIn.val[1] = LineRecent /\ msgIn.val[2] = LineExists

\* C8 (as claimed): _get_password runs at most once.
C8_PasswordComputedAtMostOnce == pwRuns <= 1

\* C9 (as claimed): no connection is opened before the password is resolved,
\* and none at all when a required field is missing or password_eval fails.
C9_ResolvedBeforeConnecting ==
  /\ \A b \in BoxIds : Has(b, "connect") => passwordCache = "set"
  /\ (~config.required \/ config.pw # "value") => \A b \in BoxIds : ops[b] = <<>>

\* C10 (as claimed): IDLE is issued, and pushes are awaited, only on a
\* connection whose SELECT succeeded.
C10_IdleOnlyAfterSelectOk ==
  \A b \in BoxIds :
    (Has(b, "idle") \/ pc[b] \in {"wait", "primary", "post"}) => selResp[b] = "OK"

C12_PasswordNeverLogged ==
  /\ \A r \in log :
       ~StrIn(Password, LogMessage(r)) /\ ~StrIn(RawPassword, LogMessage(r))
  /\ \A b \in BoxIds :
       result[b] = "AuthError" => Exc(result[b]).data.password = Password

\* the token with its first placeholder replaced by the name
RECURSIVE ReplaceFirst(_, _, _)
ReplaceFirst(tok, name, i) ==
  IF i + 1 > Len(tok) THEN tok
  ELSE IF SubSeq(tok, i, i + 1) = Placeholder
       THEN SubSeq(tok, 1, i - 1) \o name \o SubSeq(tok, i + 2, Len(tok))
       ELSE ReplaceFirst(tok, name, i + 1)

\* the words of the template, the first placeholder among them replaced by
\* the mailbox name as it is
ExpectedArgv(template, name) ==
  LET toks == ShlexSplit(template).val
      holders == {i \in 1..Len(toks) : StrIn(Placeholder, toks[i])}
  IN [i \in 1..Len(toks) |->
        IF holders # {} /\ i = Min(holders)
        THEN ReplaceFirst(toks[i], name, 1) ELSE toks[i]]

\* C13 (as claimed): for every configured template and every mailbox name the
\* dispatch hands run_command the words of the template, with the placeholder
\* replaced once by the unchanged mailbox name as part of one word, and the
\* template's own words when it has no placeholder.
C13_SubstitutedOnceLiterally ==
  (argvOut.kind # "unset" /\ templateIn # NoTemplate)
  => /\ argvOut.kind = "argv"
     /\ argvOut.val = ExpectedArgv(templateIn, nameIn)

\* C14 (as claimed): with a literal password configured, reading the password
\* gives that literal with its double quotes escaped and runs no command;
\* with none configured and a password_eval command that exits 0, it gives the
\* command's output without its trailing line endings, quotes escaped.
C14_PasswordFixedFunction ==
  pwReads >= 1 =>
    /\ pwConfig.password # NoField =>
         /\ pwResult.kind = "value"
         /\ pwResult.val = EscapePassword(pwConfig.password)
         /\ pwCommandRuns = 0
    /\ ( /\ pwConfig.password = NoField
         /\ pwConfig.eval.present /\ pwConfig.eval.outcome = "exit"
         /\ pwConfig.eval.status = 0 ) =>
         /\ pwResult.kind = "value"
         /\ pwResult.val = EscapePassword(RStrip(pwConfig.eval.out))

\* C15: reading the password raises PasswordEvalError exactly when the
\* password_eval command exits non-zero, and the error then carries the
\* configured command and the failure; it raises ConfigError exactly when the
\* configuration has neither field; in both cases no value is returned and
\* nothing is stored in the instance.
C15_PasswordFailures ==
  pwReads >= 1 =>
    LET evalFailed == /\ pwConfig.eval.present /\ pwConfig.eval.outcome = "exit"
                      /\ pwConfig.eval.status # 0
        neither == pwConfig.password = NoField /\ ~pwConfig.eval.present
    IN /\ (pwResult.kind = "raise" /\ pwResult.exc.class = "PasswordEvalError")
            <=> evalFailed
       /\ evalFailed => pwResult.exc.data = [command |-> PasswordEvalCommand,
                                             err |-> CalledProcessErrorStr]
       /\ (pwResult.kind = "raise" /\ pwResult.exc.class = "ConfigError")
            <=> neither
       /\ (evalFailed \/ neither) =>
            /\ pwResult.kind = "raise" /\ pwResult.val = <<>>
            /\ pwSlot = NoField

\* the password was read twice, the command failed both times, nothing stored
C15_Witness ==
  /\ pwReads = 2 /\ pwCommandRuns = 2
  /\ pwResult.kind = "raise" /\ pwResult.exc.class = "PasswordEvalError"
  /\ pwSlot = NoField

\* C16 (as claimed): a watcher task that has ended and whose connection was
\* recorded for its mailbox has had IDLE-exit and logout issued on that
\* connection.
C16_EndedWatcherTornDown ==
  \A b \in BoxIds :
    (pc[b] = "done" /\ boxes[b].connection)
    => Has(b, "idle_done") /\ Has(b, "logout")

\* C17 (as claimed): every connection is opened to the configured host and
\* port, and the calls on it start with connect, then login, then select, the
\* select only after a login answered OK.
C17_ConfiguredPeerAndOrder ==
  \A b \in BoxIds :
    /\ peer[b] # NoPeer => peer[b] = [host |-> Host, port |-> config.port]
    /\ ops[b] # <<>> => ops[b][1] = "connect" /\ peer[b] # NoPeer
    /\ Has(b, "login") => ops[b][2] = "login"
    /\ Has(b, "select") => ops[b][3] = "select" /\ loginResp[b] = "OK"

\* C18 (as claimed): on no connection is IDLE-exit issued after logout, and
\* IDLE-exit is issued at most once on it (a connection has one IDLE session).
C18_IdleExitOnceBeforeLogout ==
  \A b \in BoxIds :
    /\ \A i \in 1..Len(ops[b]) : \A j \in (i+1)..Len(ops[b]) :
         ~(ops[b][i] = "logout" /\ ops[b][j] = "idle_done")
    /\ Cardinality({i \in 1..Len(ops[b]) : ops[b][i] = "idle_done"}) <= 1

\* C19 (as claimed): a stop() called on a running notifier ends by returning,
\* never by raising, and when it has ended every watcher task has ended or
\* has its cancellation requested.
C19_StopCompletes ==
  (stopPc \in {"done", "raised"} /\ tasks # {})
  => /\ stopPc = "done"
     /\ \A b \in tasks : pc[b] = "done" \/ cancelReq[b]

\* C20 (as claimed): check_output always comes to an end, by returning the
\* collected output or by raising.
C20_RunnerTerminates == <>(runner \in {"returned", "raised"})

====
